---- MODULE Spec2Model ----
(***************************************************************************)
(* A model of the todo application's state-management core                 *)
(* (src/bundle.js): the reducers todo, todos and visibilityFilter, the     *)
(* root reducer todoApp, the action creators, the selector                 *)
(* getVisibleTodos and the store that sequences dispatch.                  *)
(*                                                                         *)
(* JavaScript objects live in a heap: a sequence of objects, an object's   *)
(* reference being its index.  Two values are reference-equal (===) when   *)
(* they are the same index; a new object is a new index.  Strings and      *)
(* numbers are primitive values, compared by value.                        *)
(***************************************************************************)
EXTENDS Integers, Sequences, FiniteSets, TLC

\* ---------------------------------------------------------------- bounds
MaxDispatch == 3      \* dispatch calls made from outside a listener
MaxAddCalls == 2      \* calls of addTodo outside the view
MaxClicks == 4        \* view events (button, todo and link clicks)
MaxSubs == 3          \* subscribe calls
MaxStoreDispatch == 2 \* dispatch calls made while listeners are followed
MaxReentrant == 1     \* dispatch calls made by listeners
MaxLen == 2           \* todos in a slice given to a reducer called directly

Texts == {"a", "b"}   \* the texts a caller passes to addTodo
\* The filters of the links with one of them misspelt.
FiltersMisspelt == {"SHOW_ALL", "SHOW_ACTIVE", "SHOW_COMPLETE"}
Filters == {"SHOW_ALL", "SHOW_ACTIVE", "SHOW_COMPLETED"}
FilterInputs == Filters \cup {"SHOW_NONE"}
OtherTypes == {"NOOP", "UNKNOWN"}
KnownTypes == {"ADD_TODO", "TOGGLE_TODO", "SET_VISIBILITY_FILTER"}
Registered(regs) == {regs[i] : i \in 1..Len(regs)}

\* ------------------------------------------------------- JavaScript values
undefined == 0               \* the absent reference (no object has index 0)
NoId == -1                   \* an absent id field
NoStr == "undefined"         \* an absent string field

VARIABLES
  heap,           \* the objects allocated so far
  currentState,   \* the store's state: a reference to a state object
  nextTodoId,     \* the process-wide counter of addTodo (line 97)
  produced,       \* the actions addTodo has returned, in call order
  history,        \* the actions the store has applied, in order
  dispatchedAdds, \* for each ADD_TODO dispatched, its index in produced
  visible,        \* the todos prop of the last render (a reference)
  listeners,      \* the store's registrations, in subscription order
  nextSub,        \* the next registration
  phase,          \* "idle", or "notifying" while a dispatch is in flight
  pending,        \* the registrations the dispatch in flight has yet to call
  notified,       \* the registrations it has called, in order
  seen,           \* what getState returned to the listener called last
  raised,         \* the error the last dispatch call failed with
  unsubscribed,   \* the registrations whose unsubscribe has been called
  reentrant,      \* the dispatch calls listeners have made
  lastCall        \* the last direct call of a reducer or of the selector

coreVars == <<heap, currentState, nextTodoId, produced, history,
              dispatchedAdds>>
storeVars == <<listeners, nextSub, phase, pending, notified, seen,
               unsubscribed, reentrant, lastCall>>
vars == <<coreVars, visible, storeVars, raised>>

\* What a function call leaves behind: the heap after it, the value it
\* returned, and whether it threw instead of returning.
Result(h, r) == [heap |-> h, ret |-> r, threw |-> FALSE]
Throw(h) == [heap |-> h, ret |-> undefined, threw |-> TRUE]
Alloc(h, obj) == Result(Append(h, obj), Len(h) + 1)

Action(type, id, text, filter) ==
  [type |-> type, id |-> id, text |-> text, filter |-> filter]

\* A value that is no record (a number, say): none of its fields is there.
NonRecord ==
  [type |-> NoStr, id |-> NoId, text |-> NoStr, filter |-> NoStr,
   primitive |-> TRUE]
IsRecord(value) == "primitive" \notin DOMAIN value

\* What lastCall holds: the function called, its arguments and its outcome.
Call(fn, prior, priorFilter, action, r, retFilter) ==
  [fn |-> fn, prior |-> prior, priorFilter |-> priorFilter,
   action |-> action, ret |-> r.ret, retFilter |-> retFilter,
   threw |-> r.threw]
NoCall == Call("none", undefined, NoStr, Action(NoStr, NoId, NoStr, NoStr),
               Result(<<>>, undefined), NoStr)

\* ---------------------------------------------------------------- reducers
\* todo with the TOGGLE_TODO branch copying every todo it is given.
todoAlwaysCopies(h, state, action) ==
  CASE action.type = "ADD_TODO" ->
         Alloc(h, [kind |-> "todo", id |-> action.id, text |-> action.text,
                   completed |-> FALSE])
    [] action.type = "TOGGLE_TODO" ->
         IF state = undefined THEN Throw(h)
         ELSE Alloc(h, [h[state] EXCEPT !.completed =
                          IF h[state].id = action.id THEN ~h[state].completed
                          ELSE h[state].completed])
    [] OTHER -> Result(h, state)

\* todo with the ADD_TODO branch taking the id from the counter.
todoIdFromCounter(h, state, action) ==
  CASE action.type = "ADD_TODO" ->
         Alloc(h, [kind |-> "todo", id |-> nextTodoId, text |-> action.text,
                   completed |-> FALSE])
    [] action.type = "TOGGLE_TODO" ->
         IF state = undefined THEN Throw(h)
         ELSE IF h[state].id # action.id THEN Result(h, state)
         ELSE Alloc(h, [h[state] EXCEPT !.completed = ~h[state].completed])
    [] OTHER -> Result(h, state)

\* todo with the TOGGLE_TODO branch setting completed instead of negating.
todoCompletes(h, state, action) ==
  CASE action.type = "ADD_TODO" ->
         Alloc(h, [kind |-> "todo", id |-> action.id, text |-> action.text,
                   completed |-> FALSE])
    [] action.type = "TOGGLE_TODO" ->
         IF state = undefined THEN Throw(h)
         ELSE IF h[state].id # action.id THEN Result(h, state)
         ELSE Alloc(h, [h[state] EXCEPT !.completed = TRUE])
    [] OTHER -> Result(h, state)

todo(h, state, action) ==
  CASE action.type = "ADD_TODO" ->
         Alloc(h, [kind |-> "todo", id |-> action.id, text |-> action.text,
                   completed |-> FALSE])
    [] action.type = "TOGGLE_TODO" ->
         IF state = undefined THEN Throw(h)
         ELSE IF h[state].id # action.id THEN Result(h, state)
         ELSE Alloc(h, [h[state] EXCEPT !.completed = ~h[state].completed])
    [] OTHER -> Result(h, state)

\* state.map(t => todo(t, action)): the elements from i on, left to right.
RECURSIVE MapTodo(_, _, _, _, _)
MapTodo(h, elems, action, i, acc) ==
  IF i > Len(elems) THEN Result(h, acc)
  ELSE LET r == todo(h, elems[i], action)
       IN IF r.threw THEN r
          ELSE MapTodo(r.heap, elems, action, i + 1, Append(acc, r.ret))

\* todos with the ADD_TODO branch pushing onto the array it was given.
todosPushInPlace(h, state, action) ==
  LET s == IF state = undefined
           THEN Alloc(h, [kind |-> "array", elems |-> <<>>])
           ELSE Result(h, state)
  IN CASE action.type = "ADD_TODO" ->
            LET t == todo(s.heap, undefined, action)
            IN Result([t.heap EXCEPT ![s.ret].elems = Append(@, t.ret)],
                      s.ret)
       [] action.type = "TOGGLE_TODO" ->
            LET m == MapTodo(s.heap, s.heap[s.ret].elems, action, 1, <<>>)
            IN IF m.threw THEN m
               ELSE Alloc(m.heap, [kind |-> "array", elems |-> m.ret])
       [] OTHER -> s

\* todos without the default value of its first parameter.
todosNoDefault(h, state, action) ==
  CASE action.type = "ADD_TODO" ->
         IF state = undefined THEN Throw(h)
         ELSE LET t == todo(h, undefined, action)
              IN Alloc(t.heap, [kind |-> "array",
                                elems |-> Append(h[state].elems, t.ret)])
    [] action.type = "TOGGLE_TODO" ->
         IF state = undefined THEN Throw(h)
         ELSE LET m == MapTodo(h, h[state].elems, action, 1, <<>>)
              IN IF m.threw THEN m
                 ELSE Alloc(m.heap, [kind |-> "array", elems |-> m.ret])
    [] OTHER -> Result(h, state)

\* todos with the ADD_TODO branch putting the new todo first.
todosPrepends(h, state, action) ==
  LET s == IF state = undefined
           THEN Alloc(h, [kind |-> "array", elems |-> <<>>])
           ELSE Result(h, state)
  IN CASE action.type = "ADD_TODO" ->
            LET t == todo(s.heap, undefined, action)
            IN Alloc(t.heap, [kind |-> "array",
                              elems |-> <<t.ret>> \o s.heap[s.ret].elems])
       [] action.type = "TOGGLE_TODO" ->
            LET m == MapTodo(s.heap, s.heap[s.ret].elems, action, 1, <<>>)
            IN IF m.threw THEN m
               ELSE Alloc(m.heap, [kind |-> "array", elems |-> m.ret])
       [] OTHER -> s

\* todos with the default branch returning a copy of the array.
todosCopiesByDefault(h, state, action) ==
  LET s == IF state = undefined
           THEN Alloc(h, [kind |-> "array", elems |-> <<>>])
           ELSE Result(h, state)
  IN CASE action.type = "ADD_TODO" ->
            LET t == todo(s.heap, undefined, action)
            IN Alloc(t.heap, [kind |-> "array",
                              elems |-> Append(s.heap[s.ret].elems, t.ret)])
       [] action.type = "TOGGLE_TODO" ->
            LET m == MapTodo(s.heap, s.heap[s.ret].elems, action, 1, <<>>)
            IN IF m.threw THEN m
               ELSE Alloc(m.heap, [kind |-> "array", elems |-> m.ret])
       [] OTHER -> Alloc(s.heap, [kind |-> "array",
                                  elems |-> s.heap[s.ret].elems])

todos(h, state, action) ==
  LET s == IF state = undefined
           THEN Alloc(h, [kind |-> "array", elems |-> <<>>])
           ELSE Result(h, state)
  IN CASE action.type = "ADD_TODO" ->
            LET t == todo(s.heap, undefined, action)
            IN Alloc(t.heap, [kind |-> "array",
                              elems |-> Append(s.heap[s.ret].elems, t.ret)])
       [] action.type = "TOGGLE_TODO" ->
            LET m == MapTodo(s.heap, s.heap[s.ret].elems, action, 1, <<>>)
            IN IF m.threw THEN m
               ELSE Alloc(m.heap, [kind |-> "array", elems |-> m.ret])
       [] OTHER -> s

\* visibilityFilter with the default branch returning the default filter.
visibilityFilterResets(state, action) ==
  CASE action.type = "SET_VISIBILITY_FILTER" -> action.filter
    [] OTHER -> "SHOW_ALL"

\* visibilityFilter keeping the prior filter when given an unknown one.
visibilityFilterValidates(state, action) ==
  LET s == IF state = NoStr THEN "SHOW_ALL" ELSE state
  IN CASE action.type = "SET_VISIBILITY_FILTER" ->
            IF action.filter \in Filters THEN action.filter ELSE s
       [] OTHER -> s

\* visibilityFilter with another default value of its first parameter.
visibilityFilterDefaultActive(state, action) ==
  LET s == IF state = NoStr THEN "SHOW_ACTIVE" ELSE state
  IN CASE action.type = "SET_VISIBILITY_FILTER" -> action.filter
       [] OTHER -> s

visibilityFilter(state, action) ==
  LET s == IF state = NoStr THEN "SHOW_ALL" ELSE state
  IN CASE action.type = "SET_VISIBILITY_FILTER" -> action.filter
       [] OTHER -> s

\* The reducer that combineReducers (of the Redux library, not in src/)
\* returns for the two slices: each slice reducer gets its own slice of the
\* prior state, or nothing when there is no prior state; the prior state
\* object is returned when every slice is the one it was, a new object
\* holding the slices otherwise.
combineReducers(h, state, action) ==
  LET prevTodos == IF state = undefined THEN undefined ELSE h[state].todos
      prevFilter == IF state = undefined THEN NoStr
                    ELSE h[state].visibilityFilter
      t == todos(h, prevTodos, action)
      f == visibilityFilter(prevFilter, action)
      hasChanged == state = undefined \/ t.ret # prevTodos \/ f # prevFilter
  IN IF t.threw THEN t
     ELSE IF hasChanged
     THEN Alloc(t.heap, [kind |-> "state", todos |-> t.ret,
                         visibilityFilter |-> f])
     ELSE Result(t.heap, state)

todoApp(h, state, action) == combineReducers(h, state, action)

\* ---------------------------------------------------------- action creators
\* addTodo without the increment of the counter.
addTodoNoIncrement(text) ==
  [action |-> Action("ADD_TODO", nextTodoId, text, NoStr),
   nextTodoId |-> nextTodoId]

\* addTodo with the increment before the read of the counter.
addTodoPreIncrement(text) ==
  [action |-> Action("ADD_TODO", nextTodoId + 1, text, NoStr),
   nextTodoId |-> nextTodoId + 1]

\* The action addTodo returns and the counter after the call.
addTodo(text) ==
  [action |-> Action("ADD_TODO", nextTodoId, text, NoStr),
   nextTodoId |-> nextTodoId + 1]

toggleTodo(id) == Action("TOGGLE_TODO", id, NoStr, NoStr)

setVisibilityFilter(filter) ==
  Action("SET_VISIBILITY_FILTER", NoId, NoStr, filter)

\* ---------------------------------------------------------------- selector
\* todos.filter(pred): a new array of the elements that satisfy pred.
RECURSIVE FilterElems(_, _, _, _)
FilterElems(h, elems, wanted, i) ==
  IF i > Len(elems) THEN <<>>
  ELSE IF h[elems[i]].completed = wanted
       THEN <<elems[i]>> \o FilterElems(h, elems, wanted, i + 1)
       ELSE FilterElems(h, elems, wanted, i + 1)

\* getVisibleTodos with the two filtering branches exchanged.
getVisibleTodosSwapped(h, todosRef, filter) ==
  CASE filter = "SHOW_ALL" -> Result(h, todosRef)
    [] filter = "SHOW_COMPLETED" ->
         Alloc(h, [kind |-> "array",
                   elems |-> FilterElems(h, h[todosRef].elems, FALSE, 1)])
    [] filter = "SHOW_ACTIVE" ->
         Alloc(h, [kind |-> "array",
                   elems |-> FilterElems(h, h[todosRef].elems, TRUE, 1)])
    [] OTHER -> Result(h, undefined)

\* getVisibleTodos with the SHOW_ACTIVE branch not filtering.
getVisibleTodosActiveAll(h, todosRef, filter) ==
  CASE filter = "SHOW_ALL" -> Result(h, todosRef)
    [] filter = "SHOW_COMPLETED" ->
         Alloc(h, [kind |-> "array",
                   elems |-> FilterElems(h, h[todosRef].elems, TRUE, 1)])
    [] filter = "SHOW_ACTIVE" ->
         Alloc(h, [kind |-> "array", elems |-> h[todosRef].elems])
    [] OTHER -> Result(h, undefined)

getVisibleTodos(h, todosRef, filter) ==
  CASE filter = "SHOW_ALL" -> Result(h, todosRef)
    [] filter = "SHOW_COMPLETED" ->
         Alloc(h, [kind |-> "array",
                   elems |-> FilterElems(h, h[todosRef].elems, TRUE, 1)])
    [] filter = "SHOW_ACTIVE" ->
         Alloc(h, [kind |-> "array",
                   elems |-> FilterElems(h, h[todosRef].elems, FALSE, 1)])
    [] OTHER -> Result(h, undefined)

mapStateToTodoListProps(h, state) ==
  getVisibleTodos(h, h[state].todos, h[state].visibilityFilter)

\* ------------------------------------------------------------------- store
\* The store is createStore of the Redux library, which src/ calls and does
\* not hold: it is modelled as the specification describes it.
InitAction == Action("@@redux/INIT", NoId, NoStr, NoStr)
createStore == todoApp(<<>>, undefined, InitAction)

getState == currentState

\* A pass that calls the listeners last subscribed first.
RECURSIVE Reverse(_)
Reverse(seq) ==
  IF seq = <<>> THEN <<>> ELSE Append(Reverse(Tail(seq)), Head(seq))
NotifyListReversed == Reverse(listeners)

\* The listeners a dispatch calls, in the order it calls them.
NotifyList == listeners

\* dispatch, up to the end of its reducer call.
Reduce(action) ==
  LET r == todoApp(heap, currentState, action)
  IN /\ ~r.threw
     /\ heap' = r.heap
     /\ currentState' = r.ret
     /\ history' = Append(history, action)
     /\ raised' = "none"

Reject ==
  /\ raised' = "ReentrantDispatch"
  /\ UNCHANGED <<heap, currentState, history>>

\* dispatch without the check for a dispatch in flight.
dispatchUnguarded(action) == Reduce(action)

RejectInvalid ==
  /\ raised' = "InvalidAction"
  /\ UNCHANGED <<heap, currentState, history>>

\* dispatch without the check of its argument.
dispatchUnvalidated(action) ==
  IF phase = "idle" THEN Reduce(action) ELSE Reject

dispatch(action) ==
  IF ~IsRecord(action) \/ action.type = NoStr THEN RejectInvalid
  ELSE IF phase = "idle" THEN Reduce(action)
  ELSE Reject

\* dispatch, from the end of its reducer call: the notification pass begins.
BeginNotify ==
  /\ pending' = NotifyList
  /\ notified' = <<>>
  /\ seen' = undefined
  /\ phase' = IF NotifyList = <<>> THEN "idle" ELSE "notifying"

Without(regs, r) == SelectSeq(regs, LAMBDA x : x # r)

\* unsubscribe removing the registration subscribed first.
unsubscribeOldest(r) ==
  /\ listeners' = IF listeners = <<>> THEN <<>> ELSE Tail(listeners)
  /\ unsubscribed' = unsubscribed \cup {r}

unsubscribe(r) ==
  /\ listeners' = Without(listeners, r)
  /\ unsubscribed' = unsubscribed \cup {r}

subscribe ==
  /\ listeners' = Append(listeners, nextSub)
  /\ nextSub' = nextSub + 1

\* Reading a state out of a heap.
Elems(h, s) == h[h[s].todos].elems
TodoVal(h, t) == [id |-> h[t].id, text |-> h[t].text,
                  completed |-> h[t].completed]
StateVal(h, s) ==
  [todos |-> [i \in 1..Len(Elems(h, s)) |-> TodoVal(h, Elems(h, s)[i])],
   visibilityFilter |-> h[s].visibilityFilter]

\* No call has been made yet.
InitIdle ==
  /\ nextTodoId = 0
  /\ produced = <<>>
  /\ history = <<>>
  /\ dispatchedAdds = <<>>
  /\ phase = "idle"
  /\ pending = <<>>
  /\ notified = <<>>
  /\ seen = undefined
  /\ raised = "none"
  /\ unsubscribed = {}
  /\ reentrant = 0
  /\ lastCall = NoCall

InitStore ==
  /\ currentState = createStore.ret
  /\ InitIdle

Init ==
  /\ InitStore
  /\ heap = createStore.heap
  /\ visible = undefined
  /\ listeners = <<>>
  /\ nextSub = 1

\* ------------------------------------------------- calls from outside
CallAddTodo ==
  \E text \in Texts :
    /\ phase = "idle"
    /\ Len(produced) < MaxAddCalls
    /\ produced' = Append(produced, addTodo(text).action)
    /\ nextTodoId' = addTodo(text).nextTodoId
    /\ UNCHANGED <<heap, currentState, history, dispatchedAdds, visible,
                   storeVars, raised>>

OuterDispatch(action) ==
  /\ phase = "idle"
  /\ Len(history) < MaxDispatch
  /\ dispatch(action)
  /\ BeginNotify
  /\ UNCHANGED <<nextTodoId, produced, visible, listeners, nextSub,
                 unsubscribed, reentrant, lastCall>>

DispatchAdd ==
  \E i \in 1..Len(produced) :
    /\ OuterDispatch(produced[i])
    /\ dispatchedAdds' = Append(dispatchedAdds, i)

DispatchToggle ==
  \E id \in 0..MaxAddCalls :
    /\ OuterDispatch(toggleTodo(id))
    /\ UNCHANGED dispatchedAdds

DispatchFilter ==
  \E f \in FilterInputs :
    /\ OuterDispatch(setVisibilityFilter(f))
    /\ UNCHANGED dispatchedAdds

DispatchOther ==
  \E type \in OtherTypes :
    /\ OuterDispatch(Action(type, NoId, NoStr, NoStr))
    /\ UNCHANGED dispatchedAdds

Next ==
  \/ CallAddTodo
  \/ DispatchAdd
  \/ DispatchToggle
  \/ DispatchFilter
  \/ DispatchOther

Spec == Init /\ [][Next]_vars

\* ------------------------------------------------ listeners of the store
\* The call of one listener ends: the pass moves on to the next one.
Advance ==
  /\ notified' = Append(notified, Head(pending))
  /\ pending' = Tail(pending)
  /\ phase' = IF Tail(pending) = <<>> THEN "idle" ELSE "notifying"

Subscribe ==
  /\ phase = "idle"
  /\ nextSub <= MaxSubs
  /\ subscribe
  /\ UNCHANGED <<coreVars, visible, phase, pending, notified, seen,
                 unsubscribed, reentrant, lastCall, raised>>

Unsubscribe ==
  \E r \in 1..(nextSub - 1) :
    /\ phase = "idle"
    /\ unsubscribe(r)
    /\ UNCHANGED <<coreVars, visible, nextSub, phase, pending, notified,
                   seen, reentrant, lastCall, raised>>

\* A listener that reads the state.
NotifyGetState ==
  /\ phase = "notifying"
  /\ seen' = getState
  /\ Advance
  /\ UNCHANGED <<coreVars, visible, listeners, nextSub, unsubscribed,
                 reentrant, lastCall, raised>>

\* A listener that dispatches, and catches what dispatch throws.
NotifyDispatch ==
  \E f \in FilterInputs :
    /\ phase = "notifying"
    /\ reentrant < MaxReentrant
    /\ dispatch(setVisibilityFilter(f))
    /\ reentrant' = reentrant + 1
    /\ Advance
    /\ UNCHANGED <<nextTodoId, produced, dispatchedAdds, visible, listeners,
                   nextSub, seen, unsubscribed, lastCall>>

\* A listener that calls an unsubscribe function.
NotifyUnsubscribe ==
  \E r \in 1..(nextSub - 1) :
    /\ phase = "notifying"
    /\ unsubscribe(r)
    /\ Advance
    /\ UNCHANGED <<coreVars, visible, nextSub, seen, reentrant, lastCall, raised>>

\* A listener that subscribes another listener.
NotifySubscribe ==
  /\ phase = "notifying"
  /\ nextSub <= MaxSubs
  /\ subscribe
  /\ Advance
  /\ UNCHANGED <<coreVars, visible, seen, unsubscribed, reentrant, lastCall, raised>>

\* The dispatches of a store whose listeners are followed.
StoreDispatchFilter == Len(history) < MaxStoreDispatch /\ DispatchFilter
StoreDispatchOther == Len(history) < MaxStoreDispatch /\ DispatchOther

NextStore ==
  \/ StoreDispatchFilter
  \/ StoreDispatchOther
  \/ Subscribe
  \/ Unsubscribe
  \/ NotifyGetState
  \/ NotifyDispatch
  \/ NotifyUnsubscribe
  \/ NotifySubscribe

SpecStore == Init /\ [][NextStore]_vars

\* A dispatch of a value that is no record, or of a record without a type.
DispatchInvalid ==
  \E value \in {NonRecord, Action(NoStr, NoId, NoStr, "SHOW_ACTIVE")} :
    /\ phase = "idle"
    /\ dispatch(value)
    /\ IF raised' = "none" THEN BeginNotify
       ELSE UNCHANGED <<pending, notified, seen, phase>>
    /\ UNCHANGED <<nextTodoId, produced, dispatchedAdds, visible, listeners,
                   nextSub, unsubscribed, reentrant, lastCall>>

NextInvalid ==
  \/ StoreDispatchFilter
  \/ DispatchInvalid
  \/ Subscribe
  \/ NotifyGetState

SpecInvalid == Init /\ [][NextInvalid]_vars

\* ------------------------------------------- reducers called directly
\* The slices a reducer is given: the todos of a state and its filter.
PriorTodos ==
  UNION {[1..n -> [id : 0..(MaxLen - 1), text : {"a"}, completed : BOOLEAN]] :
           n \in 0..MaxLen}

\* A heap that holds a state with these todos and this filter, last.
HeapOf(seq, filter) ==
  [i \in 1..(Len(seq) + 2) |->
     IF i <= Len(seq)
     THEN [kind |-> "todo", id |-> seq[i].id, text |-> seq[i].text,
           completed |-> seq[i].completed]
     ELSE IF i = Len(seq) + 1
     THEN [kind |-> "array", elems |-> [j \in 1..Len(seq) |-> j]]
     ELSE [kind |-> "state", todos |-> Len(seq) + 1,
           visibilityFilter |-> filter]]

\* The actions a reducer is given: records with a type, with and without
\* the fields the type goes with.
ReducerActions ==
  {Action("ADD_TODO", id, text, NoStr) : id \in 0..(MaxLen - 1), text \in Texts}
    \cup {toggleTodo(id) : id \in 0..MaxLen}
    \cup {setVisibilityFilter(f) : f \in FilterInputs}
    \cup {Action(type, NoId, NoStr, NoStr) :
            type \in KnownTypes \cup OtherTypes}
    \cup {InitAction}

InitReducers ==
  /\ \E seq \in PriorTodos, f \in FilterInputs :
       /\ heap = HeapOf(seq, f)
       /\ currentState = Len(seq) + 2
  /\ InitIdle
  /\ visible = undefined
  /\ listeners = <<>>
  /\ nextSub = 1

Returned(fn, prior, priorFilter, action, r, retFilter) ==
  /\ lastCall.fn = "none"
  /\ heap' = r.heap
  /\ lastCall' = Call(fn, prior, priorFilter, action, r, retFilter)
  /\ UNCHANGED <<currentState, nextTodoId, produced, history,
                 dispatchedAdds, visible, listeners, nextSub, phase, pending,
                 notified, seen, unsubscribed, reentrant, raised>>

CallTodo ==
  \E prior \in {undefined} \cup Registered(Elems(heap, currentState)),
     action \in ReducerActions :
    Returned("todo", prior, NoStr, action, todo(heap, prior, action), NoStr)

CallTodos ==
  \E prior \in {undefined, heap[currentState].todos},
     action \in ReducerActions :
    Returned("todos", prior, NoStr, action, todos(heap, prior, action), NoStr)

CallVisibilityFilter ==
  \E prior \in {NoStr, heap[currentState].visibilityFilter},
     action \in ReducerActions :
    Returned("visibilityFilter", undefined, prior, action,
             Result(heap, undefined), visibilityFilter(prior, action))

CallTodoApp ==
  \E prior \in {undefined, currentState}, action \in ReducerActions :
    Returned("todoApp", prior, NoStr, action, todoApp(heap, prior, action),
             NoStr)

CallGetVisibleTodos ==
  \E f \in FilterInputs \cup {heap[currentState].visibilityFilter} :
    Returned("getVisibleTodos", heap[currentState].todos, f, NoCall.action,
             getVisibleTodos(heap, heap[currentState].todos, f), NoStr)

\* The root reducer applied twice to the same TOGGLE_TODO action.
CallToggleTwice ==
  \E id \in 0..Len(Elems(heap, currentState)) :
    LET action == toggleTodo(id)
        once == todoApp(heap, currentState, action)
        twice == IF once.threw THEN once
                 ELSE todoApp(once.heap, once.ret, action)
    IN Returned("toggleTwice", currentState, NoStr, action, twice, NoStr)

NextReducers ==
  \/ CallToggleTwice
  \/ CallTodo
  \/ CallTodos
  \/ CallVisibilityFilter
  \/ CallTodoApp
  \/ CallGetVisibleTodos

SpecReducers == InitReducers /\ [][NextReducers]_vars

\* --------------------------------------------------------- the view layer
\* The registration connect makes for VisibleTodoList.
VisibleTodoList == 1

InitView ==
  /\ InitStore
  /\ LET v == mapStateToTodoListProps(createStore.heap, createStore.ret)
     IN heap = v.heap /\ visible = v.ret
  /\ listeners = <<VisibleTodoList>>
  /\ nextSub = VisibleTodoList + 1

ViewDispatch(action) ==
  /\ phase = "idle"
  /\ Len(history) < MaxClicks
  /\ dispatch(action)
  /\ BeginNotify
  /\ UNCHANGED <<visible, listeners, nextSub, unsubscribed, reentrant, lastCall>>

\* The button of AddTodo: dispatch(addTodo(input.value)).
ViewAddTodo ==
  \E text \in Texts :
    /\ ViewDispatch(addTodo(text).action)
    /\ nextTodoId' = addTodo(text).nextTodoId
    /\ produced' = Append(produced, addTodo(text).action)
    /\ dispatchedAdds' = Append(dispatchedAdds, Len(produced) + 1)

\* A click on a todo of the list: onTodoClick(todo.id).
ViewTodoClick ==
  /\ visible # undefined
  /\ \E i \in 1..Len(heap[visible].elems) :
       ViewDispatch(toggleTodo(heap[heap[visible].elems[i]].id))
  /\ UNCHANGED <<nextTodoId, produced, dispatchedAdds>>

\* A click on a FilterLink; the link of the active filter is no link.
ViewFilterClick ==
  \E f \in Filters :
    /\ f # heap[currentState].visibilityFilter
    /\ ViewDispatch(setVisibilityFilter(f))
    /\ UNCHANGED <<nextTodoId, produced, dispatchedAdds>>

\* The store calls the listener of VisibleTodoList, which renders the list.
NotifyRender ==
  /\ phase = "notifying"
  /\ Head(pending) = VisibleTodoList
  /\ seen' = getState
  /\ LET v == mapStateToTodoListProps(heap, getState)
     IN heap' = v.heap /\ visible' = v.ret
  /\ Advance
  /\ UNCHANGED <<currentState, nextTodoId, produced, history,
                 dispatchedAdds, listeners, nextSub, unsubscribed,
                 reentrant, lastCall, raised>>

NextView ==
  \/ ViewAddTodo
  \/ ViewTodoClick
  \/ ViewFilterClick
  \/ NotifyRender

SpecView == InitView /\ [][NextView]_vars

\* --------------------------------------------------------------- replay
RECURSIVE ReplayFrom(_, _, _, _)
ReplayFrom(h, s, acts, i) ==
  IF i > Len(acts) THEN Result(h, s)
  ELSE LET r == todoApp(h, s, acts[i])
       IN ReplayFrom(r.heap, r.ret, acts, i + 1)

\* The state of a second store, made by createStore(todoApp) and given acts.
ReplayVal(acts) ==
  LET r == ReplayFrom(createStore.heap, createStore.ret, acts, 1)
  IN StateVal(r.heap, r.ret)

\* ------------------------------------------------------- step vocabulary
Dispatched == Len(history') = Len(history) + 1
LastAction == history[Len(history)]
OldHeapKept == SubSeq(heap', 1, Len(heap)) = heap
Fresh(r) == r > Len(heap) /\ r <= Len(heap')
NoRepeat(seq) == \A i, j \in 1..Len(seq) : i # j => seq[i] # seq[j]
TodoIds == [i \in 1..Len(Elems(heap, currentState)) |->
              heap[Elems(heap, currentState)[i]].id]

Called == Len(notified') = Len(notified) + 1
OldElems == Elems(heap, currentState)
NewElems == Elems(heap', currentState')

\* ------------------------------------------------------------------ claims

\* C1, as stated: in every state reached by dispatches whose ADD_TODO
\* actions were all produced by addTodo, the ids of the todos in
\* state.todos are pairwise distinct.
C1_IdsUniqueAsStated == NoRepeat(TodoIds)

\* C1, amended: every id in state.todos is below the counter, so no later
\* addTodo call returns it; and when no action returned by addTodo has been
\* dispatched more than once, the ids in state.todos are pairwise distinct.
C1_IdsUniqueWhenDispatchedOnce ==
  /\ \A i \in 1..Len(TodoIds) : TodoIds[i] \in 0..(nextTodoId - 1)
  /\ NoRepeat(dispatchedAdds) => NoRepeat(TodoIds)

C1_Witness ==
  /\ NoRepeat(dispatchedAdds)
  /\ Len(TodoIds) = 2
  /\ Len(history) = 3

C3_ToggleSharesStructure ==
  [][(Dispatched /\ LastAction'.type = "TOGGLE_TODO") =>
       /\ Len(NewElems) = Len(OldElems)
       /\ \A i \in 1..Len(OldElems) :
            IF heap[OldElems[i]].id # LastAction'.id
            THEN NewElems[i] = OldElems[i]
            ELSE /\ Fresh(NewElems[i])
                 /\ heap'[NewElems[i]].id = heap[OldElems[i]].id
                 /\ heap'[NewElems[i]].text = heap[OldElems[i]].text
                 /\ heap'[NewElems[i]].completed =
                      ~heap[OldElems[i]].completed
       /\ OldHeapKept]_vars

C3_Witness ==
  /\ Len(history) = 3
  /\ LastAction.type = "TOGGLE_TODO"
  /\ \E i, j \in 1..Len(TodoIds) :
       /\ TodoIds[i] = LastAction.id
       /\ TodoIds[j] # LastAction.id

\* C4: a dispatch of ADD_TODO{id, text} yields a todos array one element
\* longer, whose first n elements are the prior n todos in the same order
\* and whose last element is a new todo {id, text, completed: false}; the
\* prior todos array and the prior todos are not changed.
C4_AddAppends ==
  [][(Dispatched /\ LastAction'.type = "ADD_TODO") =>
       /\ Len(NewElems) = Len(OldElems) + 1
       /\ SubSeq(NewElems, 1, Len(OldElems)) = OldElems
       /\ Fresh(NewElems[Len(NewElems)])
       /\ TodoVal(heap', NewElems[Len(NewElems)]) =
            [id |-> LastAction'.id, text |-> LastAction'.text,
             completed |-> FALSE]
       /\ Fresh(heap'[currentState'].todos)
       /\ OldHeapKept]_vars

C4_Witness ==
  /\ Len(history) = 3
  /\ LastAction.type = "ADD_TODO"
  /\ Len(TodoIds) = 2
  /\ heap[Elems(heap, currentState)[1]].completed

C7_FilterStoredVerbatim ==
  [][(Dispatched /\ LastAction'.type = "SET_VISIBILITY_FILTER") =>
       /\ heap'[currentState'].visibilityFilter = LastAction'.filter
       /\ raised' = "none"]_vars

C7_Witness ==
  /\ Len(history) > 0
  /\ LastAction.type = "SET_VISIBILITY_FILTER"
  /\ LastAction.filter \notin Filters
  /\ heap[currentState].visibilityFilter = LastAction.filter

\* C6: the list the view renders is getVisibleTodos(state.todos,
\* state.visibilityFilter): under SHOW_ALL the todos array itself, under
\* SHOW_COMPLETED exactly the todos with completed true and under
\* SHOW_ACTIVE exactly those with completed false, in the order of todos;
\* the call changes neither the todos array nor any todo.
C6_SelectorFilters ==
  [][Called =>
       LET all == heap[currentState].todos
           f == heap[currentState].visibilityFilter
       IN /\ f = "SHOW_ALL" => visible' = all
          /\ f = "SHOW_COMPLETED" =>
               /\ Fresh(visible')
               /\ heap'[visible'].elems =
                    SelectSeq(heap[all].elems, LAMBDA t : heap[t].completed)
          /\ f = "SHOW_ACTIVE" =>
               /\ Fresh(visible')
               /\ heap'[visible'].elems =
                    SelectSeq(heap[all].elems, LAMBDA t : ~heap[t].completed)
          /\ OldHeapKept
          /\ currentState' = currentState]_vars

C6_Witness ==
  /\ phase = "idle"
  /\ heap[currentState].visibilityFilter = "SHOW_COMPLETED"
  /\ Len(TodoIds) = 2
  /\ visible # undefined
  /\ heap[visible].elems = <<Elems(heap, currentState)[2]>>

\* C8: a dispatch call made by a listener while a dispatch is in flight
\* fails with ReentrantDispatch and leaves the state, the objects and the
\* sequence of applied actions as the outer dispatch made them.
C8_ReentrantDispatchRejected ==
  [][reentrant' # reentrant =>
       /\ raised' = "ReentrantDispatch"
       /\ currentState' = currentState
       /\ history' = history
       /\ heap' = heap]_vars

C8_Witness ==
  /\ reentrant = 1
  /\ raised = "ReentrantDispatch"
  /\ Len(history) = 1
  /\ heap[currentState].visibilityFilter = "SHOW_ACTIVE"

\* C9: a dispatch first replaces the state with the root reducer's result
\* and then calls the listeners subscribed at that time, each once and in
\* subscription order; a listener that calls getState() gets the new state.
C9_ReduceThenNotifyInOrder ==
  /\ [](NoRepeat(notified \o pending))
  /\ [](phase = "idle" => pending = <<>>)
  /\ [][/\ Dispatched =>
            /\ StateVal(heap', currentState') = ReplayVal(history')
            /\ notified' = <<>>
            /\ pending' = listeners
        /\ Called =>
            /\ notified' = Append(notified, Head(pending))
            /\ pending' = Tail(pending)
            /\ currentState' = currentState
            /\ seen' # seen =>
                 /\ seen' = currentState
                 /\ StateVal(heap, seen') = ReplayVal(history)]_vars

C9_Witness ==
  /\ phase = "idle"
  /\ notified = <<1, 2>>
  /\ seen = currentState
  /\ Len(history) = 1
  /\ heap[currentState].visibilityFilter = "SHOW_ACTIVE"

\* C10: the first call of the unsubscribe function of a registration
\* removes that registration and leaves the others in their order; a later
\* call changes no registration; no dispatch begun after the first call
\* calls the listener.
C10_UnsubscribeRemovesExactlyOne ==
  /\ [](unsubscribed \cap Registered(listeners) = {})
  /\ [][/\ \A r \in unsubscribed' \ unsubscribed :
             listeners' = SelectSeq(listeners, LAMBDA x : x # r)
        /\ (unsubscribed' = unsubscribed /\ nextSub' = nextSub) =>
             listeners' = listeners
        /\ Dispatched => unsubscribed \cap Registered(pending') = {}]_vars

C10_Witness ==
  /\ phase = "idle"
  /\ unsubscribed = {2}
  /\ listeners = <<1, 3>>
  /\ notified = <<1, 3>>
  /\ Len(history) = 2

\* C11: a dispatch of a value that is no record, or of a record without a
\* type field, fails with InvalidAction: no such value is ever given to the
\* reducer, and the call leaves the state, the objects, the applied actions
\* and the notification pass as they were, so that no listener is called.
C11_InvalidActionRejected ==
  /\ [](\A i \in 1..Len(history) :
          IsRecord(history[i]) /\ history[i].type # NoStr)
  /\ [][(raised' = "InvalidAction" /\ raised # "InvalidAction") =>
          UNCHANGED <<heap, currentState, history, phase, pending, notified,
                      seen>>]_vars

C11_Witness ==
  /\ raised = "InvalidAction"
  /\ listeners = <<1, 2>>
  /\ notified = <<1, 2>>
  /\ Len(history) = 1
  /\ heap[currentState].visibilityFilter = "SHOW_COMPLETED"

\* C12: the k-th call of addTodo returns an ADD_TODO action with id k - 1
\* and the text it was given, whatever the texts and whatever was dispatched
\* in between; and a store whose only dispatch is that of the first call's
\* action holds the one todo {id: 0, text, completed: false}.
C12_AddTodoCountsFromZero ==
  /\ nextTodoId = Len(produced)
  /\ \A k \in 1..Len(produced) :
       /\ produced[k].type = "ADD_TODO"
       /\ produced[k].id = k - 1
       /\ produced[k].text \in Texts
  /\ (Len(history) = 1 /\ dispatchedAdds = <<1>>) =>
       StateVal(heap, currentState).todos =
         <<[id |-> 0, text |-> produced[1].text, completed |-> FALSE]>>

C12_Witness ==
  /\ Len(produced) = 2
  /\ produced[1].text # produced[2].text
  /\ dispatchedAdds = <<1>>
  /\ Len(history) = 1

\* C13, as stated: no reducer throws, whatever prior slice (an absent one
\* included) and whatever action with a type it is given.
C13_NoReducerThrows == ~lastCall.threw

\* C13, amended: todos, visibilityFilter and todoApp never throw, for any
\* prior slice, an absent one included, and any action with a type; todo
\* throws when, and only when, it is given TOGGLE_TODO and no prior todo.
C13_OnlyTodoWithoutPriorThrows ==
  lastCall.threw <=>
    /\ lastCall.fn = "todo"
    /\ lastCall.prior = undefined
    /\ lastCall.action.type = "TOGGLE_TODO"

C13_Witness ==
  /\ lastCall.fn = "todoApp"
  /\ lastCall.prior = undefined
  /\ lastCall.action.type = "TOGGLE_TODO"
  /\ ~lastCall.threw
  /\ lastCall.ret # undefined

\* C14: right after createStore(todoApp), before any dispatch, getState()
\* is {todos: [], visibilityFilter: 'SHOW_ALL'}: the root reducer returns,
\* given no prior state, and each slice is its reducer's default.
C14_InitialState ==
  /\ ~createStore.threw
  /\ history = <<>> =>
       /\ getState # undefined
       /\ heap[getState].kind = "state"
       /\ heap[heap[getState].todos].kind = "array"
       /\ StateVal(heap, getState) =
            [todos |-> <<>>, visibilityFilter |-> "SHOW_ALL"]

C14_Witness == history = <<>> /\ Len(produced) = MaxAddCalls

\* C15: state.todos is append-only: a dispatch never shortens it, and the
\* todo at each position it had keeps its id and its text; only completed
\* can differ.
C15_TodosAppendOnly ==
  [][/\ Len(NewElems) >= Len(OldElems)
     /\ \A i \in 1..Len(OldElems) :
          /\ heap'[NewElems[i]].id = heap[OldElems[i]].id
          /\ heap'[NewElems[i]].text = heap[OldElems[i]].text]_vars

C15_Witness ==
  /\ Len(history) = 3
  /\ LastAction.type = "ADD_TODO"
  /\ Len(Elems(heap, currentState)) = 2
  /\ heap[Elems(heap, currentState)[1]].completed
  /\ TodoIds = <<1, 0>>

\* C16: each action type changes its own slice only: ADD_TODO and
\* TOGGLE_TODO leave state.visibilityFilter as it was, and
\* SET_VISIBILITY_FILTER leaves state.todos the same array holding the same
\* todo objects, none of them changed.
C16_OwnSliceOnly ==
  [][Dispatched =>
       LET action == history'[Len(history')]
       IN /\ action.type \in {"ADD_TODO", "TOGGLE_TODO"} =>
               heap'[currentState'].visibilityFilter =
                 heap[currentState].visibilityFilter
          /\ action.type = "SET_VISIBILITY_FILTER" =>
               /\ heap'[currentState'].todos = heap[currentState].todos
               /\ NewElems = OldElems
               /\ OldHeapKept]_vars

C16_Witness ==
  /\ Len(history) = 3
  /\ history[1].type = "ADD_TODO"
  /\ history[2] = setVisibilityFilter("SHOW_ACTIVE")
  /\ history[3] = toggleTodo(history[1].id)
  /\ heap[currentState].visibilityFilter = "SHOW_ACTIVE"
  /\ heap[Elems(heap, currentState)[1]].completed

\* C17: in every state reached through the view alone (the AddTodo button,
\* clicks on listed todos, the three FilterLinks), state.visibilityFilter
\* is SHOW_ALL, SHOW_ACTIVE or SHOW_COMPLETED, so getVisibleTodos(
\* state.todos, state.visibilityFilter) returns a sequence of todos, never
\* an absent value, and so does every rendering of the list.
C17_ViewKeepsFilterKnown ==
  LET r == getVisibleTodos(heap, heap[currentState].todos,
                           heap[currentState].visibilityFilter)
  IN /\ heap[currentState].visibilityFilter \in
          {"SHOW_ALL", "SHOW_ACTIVE", "SHOW_COMPLETED"}
     /\ ~r.threw
     /\ r.ret # undefined
     /\ r.heap[r.ret].kind = "array"
     /\ \A i \in 1..Len(r.heap[r.ret].elems) :
          r.heap[r.heap[r.ret].elems[i]].kind = "todo"
     /\ visible # undefined
     /\ heap[visible].kind = "array"

C17_Witness ==
  /\ phase = "idle"
  /\ Len(history) = 4
  /\ history[1].type = "ADD_TODO"
  /\ history[2] = setVisibilityFilter("SHOW_COMPLETED")
  /\ history[3] = setVisibilityFilter("SHOW_ACTIVE")
  /\ history[4] = setVisibilityFilter("SHOW_ALL")
  /\ visible = heap[currentState].todos
  /\ Len(heap[visible].elems) = 1

\* C18: TOGGLE_TODO{id: k} applied twice in a row to any state gives a
\* state with the same todos in the same order, each with the id, text and
\* completed it had, and the same filter; yet the todos array is a new
\* object, and so is every todo whose id is k, and no other todo.
C18_ToggleTwiceRestores ==
  lastCall.fn = "toggleTwice" =>
    LET before == lastCall.prior
        after == lastCall.ret
    IN /\ ~lastCall.threw
       /\ StateVal(heap, after) = StateVal(heap, before)
       /\ heap[after].todos # heap[before].todos
       /\ Len(Elems(heap, after)) = Len(Elems(heap, before))
       /\ \A i \in 1..Len(Elems(heap, before)) :
            (Elems(heap, after)[i] # Elems(heap, before)[i]) <=>
              (heap[Elems(heap, before)[i]].id = lastCall.action.id)

C18_Witness ==
  /\ lastCall.fn = "toggleTwice"
  /\ lastCall.action.id = 1
  /\ StateVal(heap, lastCall.prior).todos =
       <<[id |-> 1, text |-> "a", completed |-> FALSE],
         [id |-> 0, text |-> "a", completed |-> TRUE]>>
  /\ StateVal(heap, lastCall.ret).todos = StateVal(heap, lastCall.prior).todos
  /\ Elems(heap, lastCall.ret)[1] # Elems(heap, lastCall.prior)[1]

\* C19: for every todos sequence, the results of getVisibleTodos for
\* SHOW_ACTIVE and for SHOW_COMPLETED partition its result for SHOW_ALL:
\* every todo is in exactly one of the two, neither holds a todo that is
\* not in todos, and each keeps the order of todos.
C19_ActiveAndCompletedPartition ==
  lastCall.fn = "getVisibleTodos" =>
    LET given == lastCall.prior
        all == getVisibleTodos(heap, given, "SHOW_ALL")
        act == getVisibleTodos(heap, given, "SHOW_ACTIVE")
        com == getVisibleTodos(heap, given, "SHOW_COMPLETED")
        allElems == all.heap[all.ret].elems
        actElems == act.heap[act.ret].elems
        comElems == com.heap[com.ret].elems
    IN /\ allElems = heap[given].elems
       /\ Registered(actElems) \cap Registered(comElems) = {}
       /\ Registered(actElems) \cup Registered(comElems) =
            Registered(allElems)
       /\ Len(actElems) + Len(comElems) = Len(allElems)
       /\ actElems =
            SelectSeq(allElems, LAMBDA t : t \in Registered(actElems))
       /\ comElems =
            SelectSeq(allElems, LAMBDA t : t \in Registered(comElems))
       /\ lastCall.priorFilter = "SHOW_ACTIVE" =>
            heap[lastCall.ret].elems = actElems
       /\ lastCall.priorFilter = "SHOW_COMPLETED" =>
            heap[lastCall.ret].elems = comElems

C19_Witness ==
  /\ lastCall.fn = "getVisibleTodos"
  /\ lastCall.priorFilter = "SHOW_ACTIVE"
  /\ Len(heap[lastCall.prior].elems) = MaxLen
  /\ heap[heap[lastCall.prior].elems[1]].completed
  /\ heap[lastCall.ret].elems = <<heap[lastCall.prior].elems[MaxLen]>>

====
